---- MODULE Spec2Model ----
(***************************************************************************)
(* Model of pkg/events/derive/symbols_loaded.go: the derivation of the     *)
(* "symbols loaded" event from a "shared object loaded" event.             *)
(*                                                                         *)
(* Go strings on which the code does prefix tests and path cleaning are    *)
(* sequences of one-character strings; symbol names, on which the code     *)
(* only does map lookups, are TLA+ strings.                                *)
(***************************************************************************)
EXTENDS Integers, Sequences, FiniteSets, TLC

(***************************************************************************)
(* Bounds of the model.                                                    *)
(***************************************************************************)
\* number of pipeline workers calling deriveArgs in parallel
NumProcs == 2
\* number of deriveArgs calls begun in one behaviour of Spec
MaxCalls == 3
\* number of deriveArgs calls begun in one behaviour of SpecSeq
MaxSeqCalls == 2
\* longest whitelist configuration list explored by SpecWL
MaxRules == 2

(***************************************************************************)
(* String literals.                                                        *)
(***************************************************************************)
Slash == <<"/">>
Dot == <<".">>
DotDot == <<".",".">>

P_1so == <<"1",".","s","o">>
P_2so == <<"2",".","s","o">>
P_tmp_test_so == <<"/","t","m","p","/","t","e","s","t",".","s","o">>
P_lib_test_so == <<"/","l","i","b","/","t","e","s","t",".","s","o">>
P_lib_dot_test_so == <<"/","l","i","b","/",".","/","t","e","s","t",".","s","o">>
P_lib_test_x_so == <<"/","l","i","b","/","t","e","s","t","/","x",".","s","o">>
P_gnu_libc_so == <<"/","u","s","r","/","l","i","b","/","x","8","6","_","6","4","-","l","i","n","u","x","-","g","n","u","/","l","i","b","c",".","s","o">>
P_gnu_x86_so == <<"/","u","s","r","/","l","i","b","/","x","8","6","_","6","4","-","l","i","n","u","x","-","g","n","u","/","x","8","6","_","6","4",".","s","o">>
P_usr_libc_so == <<"/","u","s","r","/","l","i","b","/","l","i","b","c",".","s","o">>
P_lib64_test_so == <<"/","l","i","b","6","4","/","t","e","s","t",".","s","o">>

R_tmp_test == <<"/","t","m","p","/","t","e","s","t">>
R_test == <<"t","e","s","t">>
R_test_slash == <<"t","e","s","t","/">>
R_dot_test == <<".","/","t","e","s","t">>
R_x86_64 == <<"x","8","6","_","6","4">>
R_libc == <<"l","i","b","c">>
R_empty == <<>>

(***************************************************************************)
(* The ordered list of known library directories.                          *)
(***************************************************************************)
knownLibrariesDirs ==
  << <<"/","u","s","r","/","l","i","b","/","x","8","6","_","6","4","-","l","i","n","u","x","-","g","n","u","/">>,
     <<"/","u","s","r","/","l","i","b","6","4","/">>,
     <<"/","u","s","r","/","l","i","b","/">>,
     <<"/","l","i","b","6","4","/">>,
     <<"/","l","i","b","/">> >>

(***************************************************************************)
(* strings.HasPrefix and path.Join of the Go standard library, as the      *)
(* code calls them.                                                        *)
(***************************************************************************)
HasPrefix(s, prefix) ==
  /\ Len(prefix) <= Len(s)
  /\ SubSeq(s, 1, Len(prefix)) = prefix

\* the elements of s between its slashes, empty elements included
RECURSIVE SplitSlash(_, _)
SplitSlash(s, cur) ==
  IF s = <<>> THEN <<cur>>
  ELSE IF Head(s) = "/" THEN <<cur>> \o SplitSlash(Tail(s), <<>>)
  ELSE SplitSlash(Tail(s), Append(cur, Head(s)))

\* path.Clean's pass over the elements: empty and "." elements are dropped,
\* ".." removes the element before it, is dropped at the root, and is kept
\* at the start of a relative path.
RECURSIVE CleanElems(_, _, _)
CleanElems(elems, kept, rooted) ==
  IF elems = <<>> THEN kept
  ELSE LET e == Head(elems)
           rest == Tail(elems)
       IN IF e = <<>> \/ e = Dot THEN CleanElems(rest, kept, rooted)
          ELSE IF e = DotDot
               THEN IF kept # <<>> /\ kept[Len(kept)] # DotDot
                    THEN CleanElems(rest, SubSeq(kept, 1, Len(kept) - 1), rooted)
                    ELSE IF rooted THEN CleanElems(rest, kept, rooted)
                    ELSE CleanElems(rest, Append(kept, e), rooted)
               ELSE CleanElems(rest, Append(kept, e), rooted)

RECURSIVE JoinSlash(_)
JoinSlash(elems) ==
  IF elems = <<>> THEN <<>>
  ELSE IF Len(elems) = 1 THEN elems[1]
  ELSE elems[1] \o Slash \o JoinSlash(Tail(elems))

Clean(s) ==
  IF s = <<>> THEN Dot
  ELSE LET rooted == s[1] = "/"
           body == JoinSlash(CleanElems(SplitSlash(s, <<>>), <<>>, rooted))
           out == IF rooted THEN Slash \o body ELSE body
       IN IF out = <<>> THEN Dot ELSE out

\* a slip: the two elements are concatenated as they are
JoinPlain(a, b) == a \o b

\* path.Join(a, b): the non-empty leading element, "/" and the rest, cleaned
Join(a, b) ==
  IF a = <<>> /\ b = <<>> THEN <<>>
  ELSE IF a = <<>> THEN Clean(b)
  ELSE Clean(a \o Slash \o b)

(***************************************************************************)
(* initSymbolsLoadedEventGenerator: the watched symbols become the keys of *)
(* a map, the whitelist entries are split by their first character.        *)
(***************************************************************************)
SeqRange(s) == {s[i] : i \in 1..Len(s)}

IsAbsolute(path) == HasPrefix(path, Slash)

IsRelative(path) == ~HasPrefix(path, Slash)

initSymbolsLoadedEventGenerator(watched, whitelistedLibsPrefixes) ==
  [watchedSymbols |-> SeqRange(watched),
   pathPrefixWhitelist |-> SelectSeq(whitelistedLibsPrefixes, IsAbsolute),
   librariesWhitelist |-> SelectSeq(whitelistedLibsPrefixes, IsRelative)]

(***************************************************************************)
(* isWhitelist.                                                            *)
(***************************************************************************)
\* the test of one library rule under one known directory (a plausible slip:
\* comparing for equality instead of testing the prefix)
LibRuleMatchesExact(soPath, libsDirectory, wlLib) ==
  soPath = Join(libsDirectory, wlLib)

LibRuleMatches(soPath, libsDirectory, wlLib) ==
  HasPrefix(soPath, Join(libsDirectory, wlLib))

\* the inner loop over librariesWhitelist
AnyLibRuleMatches(g, soPath, libsDirectory) ==
  \E k \in 1..Len(g.librariesWhitelist) :
     LibRuleMatches(soPath, libsDirectory, g.librariesWhitelist[k])

\* the loop over knownLibrariesDirs without its break: every directory
\* that prefixes the path is tried
RECURSIVE ScanKnownDirsNoBreak(_, _, _)
ScanKnownDirsNoBreak(g, soPath, i) ==
  IF i > Len(knownLibrariesDirs) THEN FALSE
  ELSE IF HasPrefix(soPath, knownLibrariesDirs[i])
          /\ AnyLibRuleMatches(g, soPath, knownLibrariesDirs[i])
       THEN TRUE
       ELSE ScanKnownDirsNoBreak(g, soPath, i + 1)

\* the loop over knownLibrariesDirs from entry i on: the first directory
\* that prefixes the path decides (return true, or break)
RECURSIVE ScanKnownDirs(_, _, _)
ScanKnownDirs(g, soPath, i) ==
  IF i > Len(knownLibrariesDirs) THEN FALSE
  ELSE IF HasPrefix(soPath, knownLibrariesDirs[i])
       THEN AnyLibRuleMatches(g, soPath, knownLibrariesDirs[i])
       ELSE ScanKnownDirs(g, soPath, i + 1)

\* a slip: the path is compared with the rule instead of tested for the prefix
AnyPathPrefixMatchesExact(g, soPath) ==
  \E k \in 1..Len(g.pathPrefixWhitelist) :
     soPath = g.pathPrefixWhitelist[k]

\* the first loop, over pathPrefixWhitelist
AnyPathPrefixMatches(g, soPath) ==
  \E k \in 1..Len(g.pathPrefixWhitelist) :
     HasPrefix(soPath, g.pathPrefixWhitelist[k])

isWhitelist(g, soPath) ==
  IF AnyPathPrefixMatches(g, soPath) THEN TRUE
  ELSE IF Len(g.librariesWhitelist) > 0 THEN ScanKnownDirs(g, soPath, 1)
  ELSE FALSE

(***************************************************************************)
(* Errors, object identities and raw events.                               *)
(***************************************************************************)
ZeroID == [Inode |-> 0, Device |-> 0, Ctime |-> 0]

\* Go's nil error
NoErr == [kind |-> "nil", field |-> "", id |-> ZeroID, n |-> 0]

ZeroObjInfo == [Id |-> ZeroID, Path |-> <<>>, MountNS |-> 0]

IdA == [Inode |-> 1, Device |-> 0, Ctime |-> 0]
IdB == [Inode |-> 2, Device |-> 0, Ctime |-> 0]
\* the file of IdA after it was rewritten: same device and inode, new ctime
IdC == [Inode |-> 1, Device |-> 0, Ctime |-> 1]

Ids == {IdA, IdB, IdC}

\* what parsing the object's dynamic symbol table yields when it succeeds
Exports(id) ==
  IF id = IdA THEN {"open", "close", "sync"}
  ELSE IF id = IdC THEN {"createdir", "rmdir"}
  ELSE {}

NumArg(type, v) == [present |-> TRUE, type |-> type, num |-> v, str |-> <<>>]
StrArg(v) == [present |-> TRUE, type |-> "string", num |-> 0, str |-> v]
AbsentArg == [present |-> FALSE, type |-> "", num |-> 0, str |-> <<>>]

\* generateSOLoadedEvent: the event the kernel side reports for an object
generateSOLoadedEvent(id, path) ==
  [Args |-> [name \in {"pathname", "flags", "dev", "inode", "ctime"} |->
               IF name = "pathname" THEN StrArg(path)
               ELSE IF name = "flags" THEN NumArg("int", 0)
               ELSE IF name = "dev" THEN NumArg("uint32", id.Device)
               ELSE IF name = "inode" THEN NumArg("uint64", id.Inode)
               ELSE NumArg("uint64", id.Ctime)],
   MountNS |-> 0]

WellFormedEvents ==
  { generateSOLoadedEvent(IdA, P_1so),
    generateSOLoadedEvent(IdB, P_2so),
    generateSOLoadedEvent(IdC, P_1so),
    generateSOLoadedEvent(IdA, P_tmp_test_so),
    generateSOLoadedEvent(IdA, P_lib_test_so),
    generateSOLoadedEvent(IdB, P_lib_dot_test_so),
    generateSOLoadedEvent(IdB, P_lib_test_x_so),
    generateSOLoadedEvent(IdA, P_gnu_libc_so) }

\* an event with one argument dropped, or carried with another Go type
\* (a uint32 as uint64, anything else as int32)
Malformed(e, name, how) ==
  [e EXCEPT !.Args[name] =
     IF how = "absent" THEN AbsentArg
     ELSE [@ EXCEPT !.type = IF @ = "uint32" THEN "uint64" ELSE "int32"]]

ArgNames == {"pathname", "dev", "inode", "ctime"}

MalformedEvents ==
  { Malformed(generateSOLoadedEvent(IdA, P_tmp_test_so), name, how) :
      name \in ArgNames, how \in {"absent", "mistyped"} }

(***************************************************************************)
(* parse.ArgUint64Val, parse.ArgUint32Val, parse.ArgStringVal: the         *)
(* argument of that name with that Go type, or an error naming it.         *)
(***************************************************************************)
ArgVal(event, name, type) ==
  LET a == event.Args[name]
  IN IF ~a.present
     THEN [num |-> 0, str |-> <<>>,
           err |-> [kind |-> "argument not found", field |-> name, id |-> ZeroID, n |-> 0]]
     ELSE IF a.type # type
     THEN [num |-> 0, str |-> <<>>,
           err |-> [kind |-> "argument of wrong type", field |-> name, id |-> ZeroID, n |-> 0]]
     ELSE [num |-> a.num, str |-> a.str, err |-> NoErr]

ArgUint64Val(event, name) == ArgVal(event, name, "uint64")
ArgUint32Val(event, name) == ArgVal(event, name, "uint32")
ArgStringVal(event, name) == ArgVal(event, name, "string")

(***************************************************************************)
(* getSharedObjectInfo.                                                    *)
(***************************************************************************)
\* a slip: the error of the ctime lookup is dropped and its zero value used
getSharedObjectInfoNoCtimeCheck(event) ==
  LET inode == ArgUint64Val(event, "inode")
      dev == ArgUint32Val(event, "dev")
      ctime == ArgUint64Val(event, "ctime")
      pathname == ArgStringVal(event, "pathname")
  IN IF inode.err # NoErr THEN [objInfo |-> ZeroObjInfo, err |-> inode.err]
     ELSE IF dev.err # NoErr THEN [objInfo |-> ZeroObjInfo, err |-> dev.err]
     ELSE IF pathname.err # NoErr THEN [objInfo |-> ZeroObjInfo, err |-> pathname.err]
     ELSE [objInfo |-> [Id |-> [Inode |-> inode.num, Device |-> dev.num, Ctime |-> ctime.num],
                        Path |-> pathname.str,
                        MountNS |-> event.MountNS],
           err |-> NoErr]

getSharedObjectInfo(event) ==
  LET inode == ArgUint64Val(event, "inode")
      dev == ArgUint32Val(event, "dev")
      ctime == ArgUint64Val(event, "ctime")
      pathname == ArgStringVal(event, "pathname")
  IN IF inode.err # NoErr THEN [objInfo |-> ZeroObjInfo, err |-> inode.err]
     ELSE IF dev.err # NoErr THEN [objInfo |-> ZeroObjInfo, err |-> dev.err]
     ELSE IF ctime.err # NoErr THEN [objInfo |-> ZeroObjInfo, err |-> ctime.err]
     ELSE IF pathname.err # NoErr THEN [objInfo |-> ZeroObjInfo, err |-> pathname.err]
     ELSE [objInfo |-> [Id |-> [Inode |-> inode.num, Device |-> dev.num, Ctime |-> ctime.num],
                        Path |-> pathname.str,
                        MountNS |-> event.MountNS],
           err |-> NoErr]

(***************************************************************************)
(* The soLoader behind GetExportedSymbols: a cache keyed by the object     *)
(* identity in front of the symbol-table parser.  A request finds the      *)
(* identity resolved, being resolved, or unknown; check and insertion are  *)
(* one step under the cache's lock.                                        *)
(***************************************************************************)
NoAnswer == [syms |-> {}, err |-> NoErr]

Absent == [st |-> "absent", res |-> NoAnswer]
InFlight == [st |-> "inflight", res |-> NoAnswer]
Done(res) == [st |-> "done", res |-> res]

\* a cache without in-flight tracking: a request that finds a parse running
\* takes the identity for unknown
CacheLookupNoInFlight(c, id) ==
  IF c[id].st = "done" THEN "done" ELSE "absent"

CacheLookup(c, id) == c[id].st

\* a cache that keeps whatever the parse returned, its error included
CacheAfterParseKeepErrors(c, id, res) ==
  [c EXCEPT ![id] = Done(res)]

\* the entry once the parse returned: kept on success, dropped on failure
CacheAfterParse(c, id, res) ==
  [c EXCEPT ![id] = IF res.err = NoErr THEN Done(res) ELSE Absent]

\* the error of the n-th parse of an object
ParseError(id, n) == [kind |-> "resolution", field |-> "", id |-> id, n |-> n]

(***************************************************************************)
(* deriveArgs, after GetExportedSymbols returned.                          *)
(***************************************************************************)
NilNil == [args |-> <<>>, err |-> NoErr]

\* the orders in which a range over the map soSyms may yield its keys
Orderings(soSyms) ==
  {o \in [1..Cardinality(soSyms) -> soSyms] : SeqRange(o) = soSyms}

\* a slip: the resolver's error is replaced by an error of deriveArgs' own
ResolveErrorReturnWrapped(err) ==
  [args |-> <<>>, err |-> [err EXCEPT !.kind = "derive: " \o @]]

\* lines 70-72
ResolveErrorReturn(err) == [args |-> <<>>, err |-> err]

\* a slip: the loop keeps the symbols that are not watched
exportedWatchSymbolsNegated(g, order) ==
  LET Unwatched(sym) == sym \notin g.watchedSymbols
  IN SelectSeq(order, Unwatched)

\* lines 74-79: the loop over soSyms, visited in the given order
exportedWatchSymbols(g, order) ==
  LET Watched(sym) == sym \in g.watchedSymbols
  IN SelectSeq(order, Watched)

\* lines 81-85
MatchReturn(objInfo, exported) ==
  IF Len(exported) > 0
  THEN [args |-> <<objInfo.Path, exported>>, err |-> NoErr]
  ELSE NilNil

\* a slip: the loop consumes the watched symbols it matched
GeneratorAfterDeriveConsuming(g, exported) ==
  [g EXCEPT !.watchedSymbols = @ \ SeqRange(exported)]

\* deriveArgs reads the generator's map and lists and writes none of them
GeneratorAfterDerive(g, exported) == g

(***************************************************************************)
(* State.                                                                  *)
(***************************************************************************)
VARIABLES
  gen,        \* the symbolsLoadedEventGenerator
  cache,      \* the soLoader's cache: identity -> entry
  parses,     \* identity -> number of parser invocations started
  parseLog,   \* identity -> what each finished parser invocation returned
  pc,         \* worker -> "idle", "parsing", "waiting", "resolved"
  call,       \* worker -> the locals of its deriveArgs call
  calls,      \* number of deriveArgs calls begun
  history,    \* the deriveArgs calls that returned
  wlPath,     \* SpecWL: the argument of isWhitelist
  wlResult,   \* SpecWL: what isWhitelist returned
  wlPc        \* SpecWL: "call" before, "done" after the call

vars == <<gen, cache, parses, parseLog, pc, call, calls, history, wlPath, wlResult, wlPc>>

wlVars == <<wlPath, wlResult, wlPc>>

deriveVars == <<cache, parses, parseLog, pc, call, calls, history>>

Procs == 1..NumProcs

NoCall ==
  [event |-> generateSOLoadedEvent(ZeroID, <<>>), objInfo |-> ZeroObjInfo,
   wlChecked |-> FALSE, asked |-> 0, joined |-> FALSE,
   ticket |-> 0, finishedAtEntry |-> 0, answer |-> NoAnswer]

\* a returned call: its event, what it did on the way, what it returned
Finished(c, ret) ==
  [event |-> c.event, objInfo |-> c.objInfo,
   wlChecked |-> c.wlChecked, asked |-> c.asked,
   joined |-> c.joined, ticket |-> c.ticket,
   finishedAtEntry |-> c.finishedAtEntry, answer |-> c.answer, ret |-> ret]

\* the watched-symbol lists the generator is constructed with
WatchedInputs == { <<"open", "close", "write">>, <<"write", "open", "open">> }

\* the whitelists the generator is constructed with, in Spec and in SpecSeq
WhitelistInputs == { <<>>, <<R_tmp_test>> }

SeqWhitelistInputs ==
  { <<>>, <<R_tmp_test>>, <<R_test>>, <<R_tmp_test, R_x86_64>>,
    <<R_dot_test, R_libc>>, <<R_test_slash>> }

\* the events the workers are handed, in Spec and in SpecSeq
Events ==
  { generateSOLoadedEvent(IdA, P_1so),
    generateSOLoadedEvent(IdB, P_2so),
    generateSOLoadedEvent(IdC, P_1so),
    generateSOLoadedEvent(IdA, P_tmp_test_so),
    Malformed(generateSOLoadedEvent(IdA, P_1so), "inode", "absent") }

SeqEvents == WellFormedEvents \cup MalformedEvents

InitDerive ==
  /\ cache = [id \in Ids |-> Absent]
  /\ parses = [id \in Ids |-> 0]
  /\ parseLog = [id \in Ids |-> <<>>]
  /\ pc = [p \in Procs |-> "idle"]
  /\ call = [p \in Procs |-> NoCall]
  /\ calls = 0
  /\ history = {}

Init ==
  /\ gen \in {initSymbolsLoadedEventGenerator(w, wl) :
                w \in WatchedInputs, wl \in WhitelistInputs}
  /\ InitDerive
  /\ wlPath = <<>>
  /\ wlResult = FALSE
  /\ wlPc = "off"

(***************************************************************************)
(* deriveArgs up to the point where GetExportedSymbols returns or blocks.  *)
(***************************************************************************)
\* lines 60-63: extraction failed
DeriveExtractionError(p, e) ==
  LET r == getSharedObjectInfo(e)
  IN /\ r.err # NoErr
     /\ history' = history \cup
          {Finished([NoCall EXCEPT !.event = e], [args |-> <<>>, err |-> r.err])}
     /\ UNCHANGED <<gen, cache, parses, parseLog, pc, call>>

\* lines 65-67: the path is whitelisted
DeriveWhitelisted(p, e) ==
  LET r == getSharedObjectInfo(e)
  IN /\ r.err = NoErr
     /\ isWhitelist(gen, r.objInfo.Path)
     /\ history' = history \cup
          {Finished([NoCall EXCEPT !.event = e, !.objInfo = r.objInfo,
                                   !.wlChecked = TRUE], NilNil)}
     /\ UNCHANGED <<gen, cache, parses, parseLog, pc, call>>

\* line 69: GetExportedSymbols is called; the cache is asked under its lock
DeriveResolve(p, e) ==
  LET r == getSharedObjectInfo(e)
      id == r.objInfo.Id
      found == CacheLookup(cache, id)
      c == [NoCall EXCEPT !.event = e, !.objInfo = r.objInfo, !.wlChecked = TRUE,
                          !.asked = 1, !.finishedAtEntry = Len(parseLog[id])]
  IN /\ r.err = NoErr
     /\ ~isWhitelist(gen, r.objInfo.Path)
     /\ IF found = "done"
        THEN /\ call' = [call EXCEPT ![p] =
                           [c EXCEPT !.answer = cache[id].res, !.ticket = parses[id]]]
             /\ pc' = [pc EXCEPT ![p] = "resolved"]
             /\ UNCHANGED <<cache, parses>>
        ELSE IF found = "inflight"
        THEN /\ call' = [call EXCEPT ![p] =
                           [c EXCEPT !.joined = TRUE, !.ticket = parses[id]]]
             /\ pc' = [pc EXCEPT ![p] = "waiting"]
             /\ UNCHANGED <<cache, parses>>
        ELSE /\ call' = [call EXCEPT ![p] = [c EXCEPT !.ticket = parses[id] + 1]]
             /\ pc' = [pc EXCEPT ![p] = "parsing"]
             /\ cache' = [cache EXCEPT ![id] = InFlight]
             /\ parses' = [parses EXCEPT ![id] = @ + 1]
     /\ UNCHANGED <<gen, parseLog, history>>

\* a worker is handed one of the events evs, unless max calls were begun;
\* the workers being interchangeable, the idle worker of least number takes it
DeriveBegin(p, evs, max) ==
  /\ pc[p] = "idle"
  /\ \A q \in Procs : q < p => pc[q] # "idle"
  /\ calls < max
  /\ calls' = calls + 1
  /\ \E e \in evs :
       \/ DeriveExtractionError(p, e)
       \/ DeriveWhitelisted(p, e)
       \/ DeriveResolve(p, e)
  /\ UNCHANGED wlVars

(***************************************************************************)
(* The parser returns to the worker that started it; the workers waiting   *)
(* for the same identity get the same answer.                              *)
(***************************************************************************)
ParseReturns(p, res) ==
  LET id == call[p].objInfo.Id
      served == {q \in Procs : q = p \/ (pc[q] = "waiting" /\ call[q].objInfo.Id = id)}
  IN /\ cache' = CacheAfterParse(cache, id, res)
     /\ parseLog' = [parseLog EXCEPT ![id] = Append(@, res)]
     /\ call' = [q \in Procs |->
                   IF q \in served THEN [call[q] EXCEPT !.answer = res] ELSE call[q]]
     /\ pc' = [q \in Procs |-> IF q \in served THEN "resolved" ELSE pc[q]]
     /\ UNCHANGED <<gen, parses, calls, history, wlVars>>

ParseOk(p) ==
  /\ pc[p] = "parsing"
  /\ ParseReturns(p, [syms |-> Exports(call[p].objInfo.Id), err |-> NoErr])

ParseFail(p) ==
  /\ pc[p] = "parsing"
  /\ ParseReturns(p, [syms |-> {},
                      err |-> ParseError(call[p].objInfo.Id, parses[call[p].objInfo.Id])])

(***************************************************************************)
(* deriveArgs from line 70 on.                                             *)
(***************************************************************************)
DeriveEnd(p) ==
  /\ pc[p] = "resolved"
  /\ IF call[p].answer.err # NoErr
     THEN /\ history' = history \cup
               {Finished(call[p], ResolveErrorReturn(call[p].answer.err))}
          /\ gen' = gen
     ELSE \E order \in Orderings(call[p].answer.syms) :
            LET exported == exportedWatchSymbols(gen, order)
            IN /\ history' = history \cup
                    {Finished(call[p], MatchReturn(call[p].objInfo, exported))}
               /\ gen' = GeneratorAfterDerive(gen, exported)
  /\ pc' = [pc EXCEPT ![p] = "idle"]
  /\ call' = [call EXCEPT ![p] = NoCall]
  /\ UNCHANGED <<cache, parses, parseLog, calls, wlVars>>

(***************************************************************************)
(* Spec: the workers of the pipeline call deriveArgs in parallel.          *)
(***************************************************************************)
Next ==
  \E p \in Procs :
    \/ DeriveBegin(p, Events, MaxCalls)
    \/ ParseOk(p)
    \/ ParseFail(p)
    \/ DeriveEnd(p)

Spec == Init /\ [][Next]_vars

(***************************************************************************)
(* SpecSeq: one worker calls deriveArgs, one call after the other, over    *)
(* the wider sets of configurations and events.                            *)
(***************************************************************************)
InitSeq ==
  /\ gen \in {initSymbolsLoadedEventGenerator(w, wl) :
                w \in WatchedInputs, wl \in SeqWhitelistInputs}
  /\ InitDerive
  /\ wlPath = <<>>
  /\ wlResult = FALSE
  /\ wlPc = "off"

NextSeq ==
  \/ DeriveBegin(1, SeqEvents, MaxSeqCalls)
  \/ ParseOk(1)
  \/ ParseFail(1)
  \/ DeriveEnd(1)

SpecSeq == InitSeq /\ [][NextSeq]_vars

(***************************************************************************)
(* SpecWL: isWhitelist as a function of the whitelist the generator was    *)
(* constructed with and of the path.                                       *)
(***************************************************************************)
WLRuleStrings ==
  { R_tmp_test, R_test, R_test_slash, R_dot_test, R_x86_64, R_libc, R_empty,
    Dot, DotDot }

WLPaths ==
  { P_1so, P_tmp_test_so, P_lib_test_so, P_lib_dot_test_so, P_lib_test_x_so,
    P_gnu_libc_so, P_gnu_x86_so, P_usr_libc_so, P_lib64_test_so }

SeqsUpTo(S, n) == UNION {[1..k -> S] : k \in 0..n}

InitWL ==
  /\ gen \in {initSymbolsLoadedEventGenerator(<<"open", "close", "write">>, wl) :
                wl \in SeqsUpTo(WLRuleStrings, MaxRules)}
  /\ InitDerive
  /\ wlPath \in WLPaths
  /\ wlResult = FALSE
  /\ wlPc = "call"

IsWhitelistCall ==
  /\ wlPc = "call"
  /\ wlResult' = isWhitelist(gen, wlPath)
  /\ wlPc' = "done"
  /\ UNCHANGED <<gen, wlPath, deriveVars>>

NextWL == IsWhitelistCall

SpecWL == InitWL /\ [][NextWL]_vars

(***************************************************************************)
(* Vocabulary of the properties, stated on the raw event and on the raw    *)
(* configuration lists rather than on what the code derives from them.     *)
(***************************************************************************)
FieldOk(e, name, type) == e.Args[name].present /\ e.Args[name].type = type

WellFormed(e) ==
  /\ FieldOk(e, "inode", "uint64")
  /\ FieldOk(e, "dev", "uint32")
  /\ FieldOk(e, "ctime", "uint64")
  /\ FieldOk(e, "pathname", "string")

EventPath(e) == e.Args["pathname"].str

EventId(e) ==
  [Inode |-> e.Args["inode"].num, Device |-> e.Args["dev"].num,
   Ctime |-> e.Args["ctime"].num]

\* the raw (watched, whitelist) lists a generator may have been built from
ConfigsOf(g) ==
  { cfg \in WatchedInputs \X (WhitelistInputs \cup SeqWhitelistInputs) :
      initSymbolsLoadedEventGenerator(cfg[1], cfg[2]) = g }

\* the whitelist entries that begin with "/", and the others
PrefixRules(wl) == {wl[k] : k \in {j \in 1..Len(wl) : wl[j] # <<>> /\ wl[j][1] = "/"}}
BareRules(wl) == {wl[k] : k \in {j \in 1..Len(wl) : wl[j] = <<>> \/ wl[j][1] # "/"}}

PrefixWhitelisted(wl, path) == \E r \in PrefixRules(wl) : HasPrefix(path, r)

\* the known directories (by position) that are prefixes of the path
DirsOf(path) ==
  {i \in 1..Len(knownLibrariesDirs) : HasPrefix(path, knownLibrariesDirs[i])}

FirstDirOf(path) == CHOOSE i \in DirsOf(path) : \A j \in DirsOf(path) : i <= j

\* what is left of the path after its first n characters
Remainder(path, n) == SubSeq(path, n + 1, Len(path))

\* a rule that path cleaning leaves as it is: elements separated by single
\* slashes, none of them empty, "." or ".."
IsCleanName(r) ==
  /\ r # <<>>
  /\ \A k \in 1..Len(SplitSlash(r, <<>>)) :
        SplitSlash(r, <<>>)[k] \notin {<<>>, Dot, DotDot}

NoDuplicates(q) == \A i, j \in 1..Len(q) : i # j => q[i] # q[j]

\* whitelisted, by the raw whitelist: a prefix rule matches, or a bare rule
\* matches, in cleaned form, under the first known directory of the path
Whitelisted(wl, path) ==
  \/ PrefixWhitelisted(wl, path)
  \/ /\ DirsOf(path) # {}
     /\ \E r \in BareRules(wl) :
          HasPrefix(path, Clean(knownLibrariesDirs[FirstDirOf(path)] \o r))

C1_Case(h, cfg) ==
  /\ WellFormed(h.event)
  /\ ~Whitelisted(cfg[2], EventPath(h.event))
  /\ h.asked = 1
  /\ h.answer.err = NoErr

(***************************************************************************)
(* C1.  A call whose event extracts, whose path is not whitelisted and     *)
(* whose resolver call succeeded with symbol set S returns (path, matches) *)
(* with nil error, matches duplicate-free and equal as a set to S          *)
(* intersected with the watched set W, when S and W share a name; and it   *)
(* returns (nil, nil) when they share none.                                *)
(***************************************************************************)
C1_DerivedIsIntersection ==
  \A h \in history : \A cfg \in ConfigsOf(gen) :
    C1_Case(h, cfg) =>
      LET S == h.answer.syms
          W == SeqRange(cfg[1])
      IN IF S \cap W # {}
         THEN /\ h.ret.err = NoErr
              /\ Len(h.ret.args) = 2
              /\ h.ret.args[1] = EventPath(h.event)
              /\ NoDuplicates(h.ret.args[2])
              /\ SeqRange(h.ret.args[2]) = S \cap W
         ELSE h.ret = NilNil

C1_Witness ==
  \E h \in history : \E cfg \in ConfigsOf(gen) :
    /\ C1_Case(h, cfg)
    /\ Cardinality(h.answer.syms \cap SeqRange(cfg[1])) = 2
    /\ h.answer.syms \ SeqRange(cfg[1]) # {}
    /\ Len(h.ret.args) = 2

C2_Case(h, cfg) ==
  /\ WellFormed(h.event)
  /\ PrefixWhitelisted(cfg[2], EventPath(h.event))

(***************************************************************************)
(* C2.  A call whose event (extracting successfully) has a path starting   *)
(* with a configured whitelist entry that begins with "/" returns          *)
(* (nil, nil) and never invokes the resolver, whatever the object exports. *)
(***************************************************************************)
C2_PrefixWhitelistedSuppressed ==
  /\ \A h \in history : \A cfg \in ConfigsOf(gen) :
       C2_Case(h, cfg) => h.ret = NilNil /\ h.asked = 0 /\ h.ticket = 0
  /\ \A p \in Procs : \A cfg \in ConfigsOf(gen) :
       pc[p] # "idle" => ~PrefixWhitelisted(cfg[2], EventPath(call[p].event))

C2_Witness ==
  \E h \in history : \E cfg \in ConfigsOf(gen) :
    /\ C2_Case(h, cfg)
    /\ Exports(EventId(h.event)) \cap SeqRange(cfg[1]) # {}
    /\ h.ret = NilNil
    /\ h.asked = 0

(***************************************************************************)
(* C3 as claimed.  For every known directory d that is a prefix of the     *)
(* path and every bare rule r such that the remainder of the path after d  *)
(* starts with r, the call returns (nil, nil).                             *)
(***************************************************************************)
C3_AnyDirAnyRule ==
  \A h \in history : \A cfg \in ConfigsOf(gen) :
    WellFormed(h.event) =>
      \A i \in DirsOf(EventPath(h.event)) : \A r \in BareRules(cfg[2]) :
        HasPrefix(Remainder(EventPath(h.event), Len(knownLibrariesDirs[i])), r)
          => h.ret = NilNil

C3_Case(h, cfg, r) ==
  /\ WellFormed(h.event)
  /\ DirsOf(EventPath(h.event)) # {}
  /\ r \in BareRules(cfg[2])
  /\ IsCleanName(r)
  /\ HasPrefix(Remainder(EventPath(h.event),
                         Len(knownLibrariesDirs[FirstDirOf(EventPath(h.event))])), r)

(***************************************************************************)
(* C3 amended.  With d the first known directory, in list order, that is a *)
(* prefix of the path, and r a bare rule that is a clean relative name     *)
(* such that the remainder of the path after d starts with r, a call whose *)
(* event extracts returns (nil, nil) and does not invoke the resolver.     *)
(***************************************************************************)
C3_FirstDirCleanRuleSuppressed ==
  \A h \in history : \A cfg \in ConfigsOf(gen) : \A r \in BareRules(cfg[2]) :
    C3_Case(h, cfg, r) => h.ret = NilNil /\ h.asked = 0

C3_Witness ==
  \E h \in history : \E cfg \in ConfigsOf(gen) : \E r \in BareRules(cfg[2]) :
    /\ C3_Case(h, cfg, r)
    /\ ~PrefixWhitelisted(cfg[2], EventPath(h.event))
    /\ Exports(EventId(h.event)) \cap SeqRange(cfg[1]) # {}
    /\ h.ret = NilNil

FailuresOf(id) == Cardinality({n \in 1..Len(parseLog[id]) : parseLog[id][n].err # NoErr})

InResolver(p) == pc[p] \in {"parsing", "waiting"}

C5_Outcome(h) ==
  IF h.answer.err # NoErr
  THEN /\ h.ret = [args |-> <<>>, err |-> h.answer.err]
       /\ h.answer.err.n > h.finishedAtEntry
  ELSE /\ h.answer.syms = Exports(h.objInfo.Id)
       /\ h.ret.err = NoErr
       /\ IF h.answer.syms \cap gen.watchedSymbols = {}
          THEN h.ret.args = <<>>
          ELSE /\ Len(h.ret.args) = 2
               /\ SeqRange(h.ret.args[2]) = h.answer.syms \cap gen.watchedSymbols

(***************************************************************************)
(* C5.  Failures are never cached: a call that observes a resolution error *)
(* returns it, and the error is that of a parser invocation that had not   *)
(* finished when the call asked; a call that asks after only failed        *)
(* invocations, with none running, starts a fresh one; a call whose        *)
(* resolution succeeds gets the object's symbol set and the outcome that   *)
(* follows from it.                                                        *)
(***************************************************************************)
C5_FailuresNotCached ==
  /\ \A id \in Ids : cache[id].st = "done" => cache[id].res.err = NoErr
  /\ \A h \in history :
       h.asked = 1 =>
         /\ C5_Outcome(h)
         /\ (/\ ~h.joined
             /\ h.finishedAtEntry > 0
             /\ parseLog[h.objInfo.Id][h.finishedAtEntry].err # NoErr)
            => h.ticket = h.finishedAtEntry + 1

C5_Witness ==
  \E h1, h2 \in history :
    /\ h1.asked = 1 /\ h2.asked = 1
    /\ h1.objInfo.Id = h2.objInfo.Id
    /\ h1.answer.err # NoErr
    /\ h1.ret.err = h1.answer.err
    /\ h2.finishedAtEntry >= h1.ticket
    /\ h2.ticket > h1.ticket
    /\ h2.answer.err = NoErr
    /\ Len(h2.ret.args) = 2

C6_Case(h) ==
  /\ WellFormed(h.event)
  /\ h.asked >= 1
  /\ h.answer.err # NoErr

(***************************************************************************)
(* C6.  A call whose event extracts, whose path is not whitelisted and     *)
(* whose resolver call returned an error e returns (nil, e), e being the   *)
(* error of the one parser invocation made for the call.                   *)
(***************************************************************************)
C6_ResolverErrorVerbatim ==
  \A h \in history :
    C6_Case(h) =>
      /\ h.ret.args = <<>>
      /\ h.ret.err = ParseError(EventId(h.event), h.ticket)
      /\ h.asked = 1
      /\ h.ticket = h.finishedAtEntry + 1

C6_Witness ==
  \E h \in history :
    /\ C6_Case(h)
    /\ h.ret.err.kind = "resolution"
    /\ Exports(EventId(h.event)) # {}

BadFields(e) ==
  {name \in ArgNames :
     ~FieldOk(e, name, IF name = "dev" THEN "uint32"
                       ELSE IF name = "pathname" THEN "string" ELSE "uint64")}

(***************************************************************************)
(* C7.  A call whose event lacks one of inode (uint64), dev (uint32),      *)
(* ctime (uint64), pathname (string), or carries it with another type,     *)
(* returns (nil, error) with a non-nil error naming such a field, without  *)
(* running the whitelist check or the resolver.                            *)
(***************************************************************************)
C7_ExtractionErrorAborts ==
  /\ \A h \in history :
       ~WellFormed(h.event) =>
         /\ h.ret.args = <<>>
         /\ h.ret.err # NoErr
         /\ h.ret.err.field \in BadFields(h.event)
         /\ ~h.wlChecked
         /\ h.asked = 0
         /\ h.ticket = 0
  /\ \A p \in Procs : pc[p] # "idle" => WellFormed(call[p].event)

C7_Witness ==
  \E h \in history : \E cfg \in ConfigsOf(gen) :
    /\ ~WellFormed(h.event)
    /\ h.event.Args["pathname"].present
    /\ PrefixWhitelisted(cfg[2], h.event.Args["pathname"].str)
    /\ ~FieldOk(h.event, "ctime", "uint64")
    /\ h.ret.err # NoErr

SameOutcome(r1, r2) ==
  /\ r1.err = r2.err
  /\ Len(r1.args) = Len(r2.args)
  /\ Len(r1.args) = 2 =>
       /\ r1.args[1] = r2.args[1]
       /\ SeqRange(r1.args[2]) = SeqRange(r2.args[2])
       /\ Len(r1.args[2]) = Len(r2.args[2])

C8_Pairs ==
  \A h1, h2 \in history :
    h1.event = h2.event /\ h1.asked = h2.asked /\ h1.answer = h2.answer
      => SameOutcome(h1.ret, h2.ret)

(***************************************************************************)
(* C8.  Two calls with the same event and the same resolver answer return  *)
(* the same outcome (same error, same path, same matched symbols as a      *)
(* set), whatever calls came between them; and no step changes the         *)
(* generator's watched set or its two whitelist rule lists.                *)
(***************************************************************************)
C8_SameEventSameOutcome == []C8_Pairs /\ [][gen' = gen]_vars

C8_Witness ==
  \E h1, h2, h3 \in history :
    /\ h1.event = h2.event /\ h1.answer = h2.answer
    /\ Len(h1.ret.args) = 2
    /\ h1.ret.args[2] # h2.ret.args[2]
    /\ h3.event # h1.event
    /\ h3.ret.err # NoErr

C9_Case ==
  /\ wlPc = "done"
  /\ ~AnyPathPrefixMatches(gen, wlPath)
  /\ Len(gen.librariesWhitelist) > 0

MatchesUnder(path, i, r) == HasPrefix(path, Join(knownLibrariesDirs[i], r))

(***************************************************************************)
(* C9.  When no prefix rule matches and a bare rule exists, the bare rules *)
(* are tried under one directory only: the first known directory, in list  *)
(* order, that is a prefix of the path.  No known directory is a prefix of *)
(* a later one, so that directory is the longest known directory that is a *)
(* prefix of the path; the answer is whether a rule matches under it, and  *)
(* false when no known directory is a prefix of the path.                  *)
(***************************************************************************)
C9_FirstDirectoryOnly ==
  /\ \A i, j \in 1..Len(knownLibrariesDirs) :
       i < j => ~HasPrefix(knownLibrariesDirs[j], knownLibrariesDirs[i])
  /\ C9_Case =>
       IF DirsOf(wlPath) = {} THEN wlResult = FALSE
       ELSE /\ \A i \in DirsOf(wlPath) :
                 Len(knownLibrariesDirs[i]) <= Len(knownLibrariesDirs[FirstDirOf(wlPath)])
            /\ wlResult = \E r \in SeqRange(gen.librariesWhitelist) :
                              MatchesUnder(wlPath, FirstDirOf(wlPath), r)

C9_Witness ==
  /\ C9_Case
  /\ Cardinality(DirsOf(wlPath)) = 2
  /\ \E i \in DirsOf(wlPath) : \E r \in SeqRange(gen.librariesWhitelist) :
       /\ i # FirstDirOf(wlPath)
       /\ IsCleanName(r)
       /\ MatchesUnder(wlPath, i, r)
  /\ wlResult = FALSE

C10_Case ==
  /\ wlPc = "done"
  /\ ~AnyPathPrefixMatches(gen, wlPath)
  /\ Len(gen.librariesWhitelist) > 0
  /\ DirsOf(wlPath) # {}

(***************************************************************************)
(* C10 as claimed.  Under the selected directory d the answer equals the   *)
(* test whether the path starts with d followed by r, for some bare rule   *)
(* r, with no other rewriting of d or r.                                   *)
(***************************************************************************)
C10_PlainConcatenation ==
  C10_Case =>
    wlResult = \E r \in SeqRange(gen.librariesWhitelist) :
                 HasPrefix(wlPath, knownLibrariesDirs[FirstDirOf(wlPath)] \o r)

(***************************************************************************)
(* C10 amended.  Under the selected directory d the answer equals the test *)
(* whether the path starts with the cleaned form of d followed by r        *)
(* (what path.Join(d, r) returns), for some bare rule r; when every bare   *)
(* rule is a clean relative name this is the plain concatenation test.     *)
(***************************************************************************)
C10_CleanedConcatenation ==
  C10_Case =>
    /\ wlResult = \E r \in SeqRange(gen.librariesWhitelist) :
                    HasPrefix(wlPath, Clean(knownLibrariesDirs[FirstDirOf(wlPath)] \o r))
    /\ (\A r \in SeqRange(gen.librariesWhitelist) : IsCleanName(r)) =>
         wlResult = \E r \in SeqRange(gen.librariesWhitelist) :
                      HasPrefix(wlPath, knownLibrariesDirs[FirstDirOf(wlPath)] \o r)

C10_Witness ==
  /\ C10_Case
  /\ \A r \in SeqRange(gen.librariesWhitelist) : IsCleanName(r)
  /\ wlResult = TRUE
  /\ wlPath # knownLibrariesDirs[FirstDirOf(wlPath)] \o gen.librariesWhitelist[1]

====
